---------------------------- MODULE Spec2Model ----------------------------
(***************************************************************************)
(* Model of O-C-R/s3website: an HTTP handler that serves a static website   *)
(* out of an S3 bucket.  The repository holds the handler twice: as the     *)
(* library package s3website (src/s3website.go lines 1-243) and as the      *)
(* command package main (lines 245-529).  Both are modelled; the variable   *)
(* pkg says which one runs.                                                 *)
(*                                                                         *)
(* Strings are sequences of one-character strings, bodies are sequences of  *)
(* byte values.  One request is in flight at a time; the handler advances   *)
(* from one store call to the next, and the bucket may change in between.   *)
(***************************************************************************)
EXTENDS Naturals, Sequences, FiniteSets

VARIABLES
  pkg,             \* "s3website" (library) or "main" (command)
  store,           \* the bucket: StoreKeys -> object or NoObject
  path,            \* req.URL.Path
  acceptEncoding,  \* req.Header.Get("accept-encoding")
  pc,              \* position of the handler
  key,             \* the local variable key of ServeHTTP / serveFile
  got,             \* getObjectOutput held by serveFile
  w,               \* the http.ResponseWriter: status, header, body
  calls,           \* store calls issued for this request, in order
  bodyRead,        \* "none", "ok" or "err": reading getObjectOutput.Body
  changed          \* the bucket changed while this request was in flight

vars == <<pkg, store, path, acceptEncoding, pc, key, got, w, calls, bodyRead, changed>>

\* Longest object body in the bucket.
MaxBodyLen == 1

----------------------------------------------------------------------------
\* String constants.

compressableContentTypes ==
  { <<"a", "p", "p", "l", "i", "c", "a", "t", "i", "o", "n", "/", "e", "o", "t">>,
    <<"a", "p", "p", "l", "i", "c", "a", "t", "i", "o", "n", "/", "f", "o", "n", "t">>,
    <<"a", "p", "p", "l", "i", "c", "a", "t", "i", "o", "n", "/", "f", "o", "n", "t", "-", "s", "f", "n", "t">>,
    <<"a", "p", "p", "l", "i", "c", "a", "t", "i", "o", "n", "/", "j", "a", "v", "a", "s", "c", "r", "i", "p", "t">>,
    <<"a", "p", "p", "l", "i", "c", "a", "t", "i", "o", "n", "/", "j", "s", "o", "n">>,
    <<"a", "p", "p", "l", "i", "c", "a", "t", "i", "o", "n", "/", "o", "p", "e", "n", "t", "y", "p", "e">>,
    <<"a", "p", "p", "l", "i", "c", "a", "t", "i", "o", "n", "/", "o", "t", "f">>,
    <<"a", "p", "p", "l", "i", "c", "a", "t", "i", "o", "n", "/", "p", "k", "c", "s", "7", "-", "m", "i", "m", "e">>,
    <<"a", "p", "p", "l", "i", "c", "a", "t", "i", "o", "n", "/", "t", "r", "u", "e", "t", "y", "p", "e">>,
    <<"a", "p", "p", "l", "i", "c", "a", "t", "i", "o", "n", "/", "t", "t", "f">>,
    <<"a", "p", "p", "l", "i", "c", "a", "t", "i", "o", "n", "/", "v", "n", "d", ".", "m", "s", "-", "f", "o", "n", "t", "o", "b", "j", "e", "c", "t">>,
    <<"a", "p", "p", "l", "i", "c", "a", "t", "i", "o", "n", "/", "x", "-", "f", "o", "n", "t", "-", "o", "p", "e", "n", "t", "y", "p", "e">>,
    <<"a", "p", "p", "l", "i", "c", "a", "t", "i", "o", "n", "/", "x", "-", "f", "o", "n", "t", "-", "t", "r", "u", "e", "t", "y", "p", "e">>,
    <<"a", "p", "p", "l", "i", "c", "a", "t", "i", "o", "n", "/", "x", "-", "f", "o", "n", "t", "-", "t", "t", "f">>,
    <<"a", "p", "p", "l", "i", "c", "a", "t", "i", "o", "n", "/", "x", "-", "h", "t", "t", "p", "d", "-", "c", "g", "i">>,
    <<"a", "p", "p", "l", "i", "c", "a", "t", "i", "o", "n", "/", "x", "-", "j", "a", "v", "a", "s", "c", "r", "i", "p", "t">>,
    <<"a", "p", "p", "l", "i", "c", "a", "t", "i", "o", "n", "/", "x", "-", "m", "p", "e", "g", "u", "r", "l">>,
    <<"a", "p", "p", "l", "i", "c", "a", "t", "i", "o", "n", "/", "x", "-", "o", "p", "e", "n", "t", "y", "p", "e">>,
    <<"a", "p", "p", "l", "i", "c", "a", "t", "i", "o", "n", "/", "x", "-", "o", "t", "f">>,
    <<"a", "p", "p", "l", "i", "c", "a", "t", "i", "o", "n", "/", "x", "-", "p", "e", "r", "l">>,
    <<"a", "p", "p", "l", "i", "c", "a", "t", "i", "o", "n", "/", "x", "-", "t", "t", "f">>,
    <<"a", "p", "p", "l", "i", "c", "a", "t", "i", "o", "n", "/", "x", "h", "t", "m", "l", "+", "x", "m", "l">>,
    <<"a", "p", "p", "l", "i", "c", "a", "t", "i", "o", "n", "/", "x", "m", "l">>,
    <<"a", "p", "p", "l", "i", "c", "a", "t", "i", "o", "n", "/", "x", "m", "l", "+", "r", "s", "s">>,
    <<"f", "o", "n", "t", "/", "e", "o", "t">>,
    <<"f", "o", "n", "t", "/", "o", "p", "e", "n", "t", "y", "p", "e">>,
    <<"f", "o", "n", "t", "/", "o", "t", "f">>,
    <<"f", "o", "n", "t", "/", "t", "t", "f">>,
    <<"i", "m", "a", "g", "e", "/", "s", "v", "g", "+", "x", "m", "l">>,
    <<"t", "e", "x", "t", "/", "c", "s", "s">>,
    <<"t", "e", "x", "t", "/", "c", "s", "v">>,
    <<"t", "e", "x", "t", "/", "h", "t", "m", "l">>,
    <<"t", "e", "x", "t", "/", "j", "a", "v", "a", "s", "c", "r", "i", "p", "t">>,
    <<"t", "e", "x", "t", "/", "j", "s">>,
    <<"t", "e", "x", "t", "/", "p", "l", "a", "i", "n">>,
    <<"t", "e", "x", "t", "/", "r", "i", "c", "h", "t", "e", "x", "t">>,
    <<"t", "e", "x", "t", "/", "t", "a", "b", "-", "s", "e", "p", "a", "r", "a", "t", "e", "d", "-", "v", "a", "l", "u", "e", "s">>,
    <<"t", "e", "x", "t", "/", "x", "-", "c", "o", "m", "p", "o", "n", "e", "n", "t">>,
    <<"t", "e", "x", "t", "/", "x", "-", "j", "a", "v", "a", "-", "s", "o", "u", "r", "c", "e">>,
    <<"t", "e", "x", "t", "/", "x", "-", "s", "c", "r", "i", "p", "t">>,
    <<"t", "e", "x", "t", "/", "x", "m", "l">> }
IndexHtml == <<"i", "n", "d", "e", "x", ".", "h", "t", "m", "l">>
SlashIndexHtml == <<"/", "i", "n", "d", "e", "x", ".", "h", "t", "m", "l">>
Slash == <<"/">>
GzipToken == <<"g", "z", "i", "p">>
MaxAge60 == <<"m", "a", "x", "-", "a", "g", "e", "=", "6", "0">>
TextPlainUtf8 == <<"t", "e", "x", "t", "/", "p", "l", "a", "i", "n", ";", " ", "c", "h", "a", "r", "s", "e", "t", "=", "u", "t", "f", "-", "8">>
OctetStream == <<"a", "p", "p", "l", "i", "c", "a", "t", "i", "o", "n", "/", "o", "c", "t", "e", "t", "-", "s", "t", "r", "e", "a", "m">>
TextHtml == <<"t", "e", "x", "t", "/", "h", "t", "m", "l">>
ImagePng == <<"i", "m", "a", "g", "e", "/", "p", "n", "g">>
NoCache == <<"n", "o", "-", "c", "a", "c", "h", "e">>
TextCssUtf8 == <<"t", "e", "x", "t", "/", "c", "s", "s", ";", " ", "c", "h", "a", "r", "s", "e", "t", "=", "u", "t", "f", "-", "8">>
TextHtmlUtf8 == <<"t", "e", "x", "t", "/", "h", "t", "m", "l", ";", " ", "c", "h", "a", "r", "s", "e", "t", "=", "u", "t", "f", "-", "8">>
XJavascript == <<"a", "p", "p", "l", "i", "c", "a", "t", "i", "o", "n", "/", "x", "-", "j", "a", "v", "a", "s", "c", "r", "i", "p", "t">>
ExtCss == <<".", "c", "s", "s">>
ExtHtml == <<".", "h", "t", "m", "l">>
ExtJs == <<".", "j", "s">>
ExtPng == <<".", "p", "n", "g">>
PathRoot == <<"/">>
PathA == <<"/", "a">>
PathADir == <<"/", "a", "/">>
KeyAIndex == <<"/", "a", "/", "i", "n", "d", "e", "x", ".", "h", "t", "m", "l">>
AeGzip == <<"g", "z", "i", "p">>
AeDeflateGzip == <<"d", "e", "f", "l", "a", "t", "e", ",", " ", "g", "z", "i", "p">>
AeGzipQ == <<"g", "z", "i", "p", ";", "q", "=", "1">>
AcceptEncodingName == <<"a", "c", "c", "e", "p", "t", "-", "e", "n", "c", "o", "d", "i", "n", "g">>
NoSniff == <<"n", "o", "s", "n", "i", "f", "f">>

Empty == << >>

----------------------------------------------------------------------------
\* Library functions the handler calls (Go standard library).

\* strings.HasSuffix
HasSuffix(s, suffix) ==
  /\ Len(s) >= Len(suffix)
  /\ SubSeq(s, Len(s) - Len(suffix) + 1, Len(s)) = suffix

\* strings.Index for a one-character separator; 0 when absent
Index(s, c) ==
  IF \E i \in 1..Len(s) : s[i] = c
  THEN CHOOSE i \in 1..Len(s) : s[i] = c /\ \A j \in 1..(i - 1) : s[j] # c
  ELSE 0

\* strings.Split for a one-character separator
RECURSIVE Split(_, _)
Split(s, c) ==
  LET i == Index(s, c)
  IN IF i = 0 THEN <<s>>
     ELSE <<SubSeq(s, 1, i - 1)>> \o Split(SubSeq(s, i + 1, Len(s)), c)

WhiteSpace == {" ", "\t", "\n", "\r"}

\* strings.TrimSpace
RECURSIVE TrimSpace(_)
TrimSpace(s) ==
  IF s = Empty THEN s
  ELSE IF s[1] \in WhiteSpace THEN TrimSpace(Tail(s))
  ELSE IF s[Len(s)] \in WhiteSpace THEN TrimSpace(SubSeq(s, 1, Len(s) - 1))
  ELSE s

\* filepath.Ext: the suffix starting at the last dot of the last path element
RECURSIVE ExtFrom(_, _)
ExtFrom(p, i) ==
  IF i = 0 \/ p[i] = "/" THEN Empty
  ELSE IF p[i] = "." THEN SubSeq(p, i, Len(p))
  ELSE ExtFrom(p, i - 1)

Ext(p) == ExtFrom(p, Len(p))

\* mime.TypeByExtension, built-in table
TypeByExtension(ext) ==
  IF ext = ExtCss THEN TextCssUtf8
  ELSE IF ext = ExtHtml THEN TextHtmlUtf8
  ELSE IF ext = ExtJs THEN XJavascript
  ELSE IF ext = ExtPng THEN ImagePng
  ELSE Empty

\* Bytes http.DetectContentType counts as binary (no signature is as short
\* as the bodies of the model).
BinaryBytes == (0..8) \cup {11} \cup (14..26) \cup (28..31)

\* http.DetectContentType: never empty
DetectContentType(data) ==
  IF \E i \in 1..Len(data) : data[i] \in BinaryBytes
  THEN OctetStream
  ELSE TextPlainUtf8

\* gzip.Writer: member header, the deflate stream (a stored block), and the
\* trailer with the input size
Gzip(data) == <<31, 139, 8>> \o (<<1>> \o data) \o <<Len(data)>>

\* sha256.New / sha1.New with Sum: an ideal (collision-free) digest
sha256(data) == [alg |-> "sha256", of |-> data]
sha1(data) == [alg |-> "sha1", of |-> data]

\* base64.StdEncoding.WithPadding(base64.NoPadding)
base64Encoding(digest) == [enc |-> "base64", padding |-> FALSE, of |-> digest]

\* base64.StdEncoding
StdEncoding(digest) == [enc |-> "base64", padding |-> TRUE, of |-> digest]

Quote(v) == [quoted |-> TRUE, val |-> v]

\* http.Header.Set and http.Header.Get, on canonical names
HeaderSet(h, name, v) ==
  [n \in (DOMAIN h) \cup {name} |-> IF n = name THEN v ELSE h[n]]

HeaderGet(h, name) == IF name \in DOMAIN h THEN h[name] ELSE Empty

\* a fresh http.ResponseWriter: nothing set, nothing written
NewResponse == [status |-> 0, header |-> Empty, body |-> Empty, msg |-> ""]

\* http.Error
Error(rw, msg, code) ==
  [status |-> code,
   header |-> HeaderSet(HeaderSet(rw.header, "Content-Type", TextPlainUtf8),
                        "X-Content-Type-Options", NoSniff),
   body |-> Empty,
   msg |-> msg]

\* http.NotFound
NotFound(rw) == Error(rw, "404 page not found", 404)

\* http.Redirect
Redirect(rw, urlStr, code) ==
  [status |-> code,
   header |-> HeaderSet(rw.header, "Location", urlStr),
   body |-> Empty,
   msg |-> "Found"]

\* http.ServeContent for a request without conditional or range headers
ServeContent(rw, name, content) ==
  LET ctype == IF TypeByExtension(Ext(name)) # Empty
               THEN TypeByExtension(Ext(name))
               ELSE DetectContentType(content)
      h == IF "Content-Type" \in DOMAIN rw.header
           THEN rw.header
           ELSE HeaderSet(rw.header, "Content-Type", ctype)
  IN [status |-> 200, header |-> h, body |-> content, msg |-> ""]

----------------------------------------------------------------------------
\* The bucket and the S3 client.

NoObject == [absent |-> TRUE]

Pkgs == {"s3website", "main"}

StoreKeys == {PathA, KeyAIndex}

Paths == {PathRoot, PathA, PathADir}

AcceptEncodings == {Empty, AeGzip, AeDeflateGzip, AeGzipQ}

ContentTypes == {Empty, TextHtml, ImagePng}

CacheControls == {Empty, NoCache}

ByteValues == {0}

Bodies == UNION {[1..n -> ByteValues] : n \in 0..MaxBodyLen}

Objects == [ct : ContentTypes, cc : CacheControls, body : Bodies]

Exists(st, k) == k \in StoreKeys /\ st[k] # NoObject

Nil == [kind |-> "nil", code |-> ""]

AwsErr(code) == [kind |-> "awserr", code |-> code]

PlainErr == [kind |-> "error", code |-> "timeout"]

\* what the client may answer besides the truth
Failures == {[out |-> NoObject, err |-> e] : e \in {AwsErr("AccessDenied"), PlainErr}}

\* s3.S3.HeadObject
ClientHeadObject(st, k) ==
  (IF Exists(st, k)
   THEN {[out |-> st[k], err |-> Nil]}
   ELSE {[out |-> NoObject, err |-> AwsErr("NotFound")]}) \cup Failures

\* s3.S3.GetObject
ClientGetObject(st, k) ==
  (IF Exists(st, k)
   THEN {[out |-> st[k], err |-> Nil]}
   ELSE {[out |-> NoObject, err |-> AwsErr("NoSuchKey")]}) \cup Failures

Call(op, k, resp) == [op |-> op, key |-> k, err |-> resp.err]

----------------------------------------------------------------------------
\* The handler's own functions.

\* acceptEncodingGzip without strings.TrimSpace
acceptEncodingGzipNoTrim(ae) ==
  LET encodings == Split(ae, ",")
  IN \E i \in 1..Len(encodings) : encodings[i] = GzipToken

acceptEncodingGzip(ae) ==
  LET encodings == Split(ae, ",")
  IN \E i \in 1..Len(encodings) : TrimSpace(encodings[i]) = GzipToken

\* headObject taking every service error for absence
headObjectAnyCode(resp) ==
  IF resp.err.kind = "awserr"
  THEN [out |-> NoObject, err |-> Nil]
  ELSE IF resp.err # Nil
  THEN [out |-> NoObject, err |-> resp.err]
  ELSE resp

headObject(resp) ==
  IF resp.err.kind = "awserr" /\ resp.err.code = "NotFound"
  THEN [out |-> NoObject, err |-> Nil]
  ELSE IF resp.err # Nil
  THEN [out |-> NoObject, err |-> resp.err]
  ELSE resp

getObject(resp) ==
  IF resp.err.kind = "awserr" /\ resp.err.code = "NoSuchKey"
  THEN [out |-> NoObject, err |-> Nil]
  ELSE IF resp.err # Nil
  THEN [out |-> NoObject, err |-> resp.err]
  ELSE resp

\* the index key built without the separating slash
IndexKeyNoSlash(k) == k \o IndexHtml

\* the key of the index document of a path without trailing slash
IndexKey(k) == k \o SlashIndexHtml

\* the local fileContentType of serveFile
fileContentType(p, hdr, out, k, data) ==
  IF p = "s3website"
  THEN IF out.ct # Empty THEN out.ct ELSE TypeByExtension(Ext(k))
  ELSE LET h == HeaderGet(hdr, "Content-Type")
           t == IF h = Empty THEN TypeByExtension(Ext(k)) ELSE h
       IN IF t = Empty THEN DetectContentType(data) ELSE t

\* the local gzipEncoded of serveFile
gzipEncoded(fct, ae) ==
  /\ Split(fct, ";")[1] \in compressableContentTypes
  /\ acceptEncodingGzip(ae)

\* the etag of serveFile: the library hashes what io.Copy reads from the
\* object's Body, the command hashes data after compression
etag(p, raw, data) ==
  IF p = "s3website"
  THEN Quote(base64Encoding(sha256(raw)))
  ELSE Quote(StdEncoding(sha1(data)))

\* the value serveFile gives the Cache-Control header
cacheControl(out) == IF out.cc # Empty THEN out.ct ELSE MaxAge60

\* serveFile between getObject and the read of the Body
serveFileBegin(p, rw, out, k) ==
  IF p = "s3website" /\ fileContentType(p, rw.header, out, k, Empty) # Empty
  THEN [rw EXCEPT !.header =
          HeaderSet(rw.header, "Content-Type",
                    fileContentType(p, rw.header, out, k, Empty))]
  ELSE rw

\* serveFile after the Body was read in full
serveFileEnd(p, rw, out, k, ae) ==
  LET raw == out.body
      fct == fileContentType(p, rw.header, out, k, raw)
      gz == gzipEncoded(fct, ae)
      data == IF gz THEN Gzip(raw) ELSE raw
      h1 == HeaderSet(rw.header, "Etag", etag(p, raw, data))
      h2 == IF gz
            THEN HeaderSet(HeaderSet(h1, "Content-Encoding", GzipToken),
                           "Vary", AcceptEncodingName)
            ELSE h1
      h3 == HeaderSet(h2, "Content-Type", fct)
      h4 == HeaderSet(h3, "Cache-Control", cacheControl(out))
  IN ServeContent([rw EXCEPT !.header = h4], k, data)

----------------------------------------------------------------------------
\* The state machine.

Init ==
  /\ pkg \in Pkgs
  /\ store \in [StoreKeys -> Objects \cup {NoObject}]
  /\ path = PathRoot
  /\ acceptEncoding = Empty
  /\ pc = "idle"
  /\ key = Empty
  /\ got = NoObject
  /\ w = NewResponse
  /\ calls = << >>
  /\ bodyRead = "none"
  /\ changed = FALSE

InFlight == pc \in {"headObject", "headIndex", "getObject", "readBody"}

\* ServeHTTP without the trailing-slash case
ServeHTTPAlwaysHead(p, ae) ==
  /\ pc \in {"idle", "done"}
  /\ path' = p
  /\ acceptEncoding' = ae
  /\ w' = NewResponse
  /\ calls' = << >>
  /\ got' = NoObject
  /\ bodyRead' = "none"
  /\ changed' = FALSE
  /\ key' = p
  /\ pc' = "headObject"
  /\ UNCHANGED <<pkg, store>>

\* ServeHTTP up to its first store call
ServeHTTP(p, ae) ==
  /\ pc \in {"idle", "done"}
  /\ path' = p
  /\ acceptEncoding' = ae
  /\ w' = NewResponse
  /\ calls' = << >>
  /\ got' = NoObject
  /\ bodyRead' = "none"
  /\ changed' = FALSE
  /\ IF HasSuffix(p, Slash)
     THEN key' = p \o IndexHtml /\ pc' = "getObject"
     ELSE key' = p /\ pc' = "headObject"
  /\ UNCHANGED <<pkg, store>>

\* ServeHTTP going on to the second check after a failed first one
HeadPathNoReturn ==
  /\ pc = "headObject"
  /\ \E resp \in ClientHeadObject(store, key) :
       LET r == headObject(resp)
       IN /\ calls' = Append(calls, Call("HeadObject", key, resp))
          /\ IF r.err = Nil /\ r.out # NoObject
             THEN w' = w /\ pc' = "getObject"
             ELSE w' = w /\ pc' = "headIndex"
  /\ UNCHANGED <<pkg, store, path, acceptEncoding, key, got, bodyRead, changed>>

\* ServeHTTP: headObject(key) and what follows it
HeadPath ==
  /\ pc = "headObject"
  /\ \E resp \in ClientHeadObject(store, key) :
       LET r == headObject(resp)
       IN /\ calls' = Append(calls, Call("HeadObject", key, resp))
          /\ IF r.err # Nil
             THEN w' = Error(w, r.err.code, 500) /\ pc' = "done"
             ELSE IF r.out # NoObject
             THEN w' = w /\ pc' = "getObject"
             ELSE w' = w /\ pc' = "headIndex"
  /\ UNCHANGED <<pkg, store, path, acceptEncoding, key, got, bodyRead, changed>>

\* ServeHTTP: headObject(key + "/index.html") and what follows it
HeadIndex ==
  /\ pc = "headIndex"
  /\ \E resp \in ClientHeadObject(store, IndexKey(key)) :
       LET r == headObject(resp)
       IN /\ calls' = Append(calls, Call("HeadObject", IndexKey(key), resp))
          /\ IF r.err # Nil
             THEN w' = Error(w, r.err.code, 500)
             ELSE IF r.out # NoObject
             THEN w' = Redirect(w, key \o Slash, 302)
             ELSE w' = NotFound(w)
  /\ pc' = "done"
  /\ UNCHANGED <<pkg, store, path, acceptEncoding, key, got, bodyRead, changed>>

\* serveFile: getObject(key) up to the read of the Body
GetObject ==
  /\ pc = "getObject"
  /\ \E resp \in ClientGetObject(store, key) :
       LET r == getObject(resp)
       IN /\ calls' = Append(calls, Call("GetObject", key, resp))
          /\ IF r.err # Nil
             THEN w' = Error(w, r.err.code, 500) /\ pc' = "done" /\ got' = got
             ELSE IF r.out = NoObject
             THEN w' = NotFound(w) /\ pc' = "done" /\ got' = got
             ELSE /\ got' = r.out
                  /\ w' = serveFileBegin(pkg, w, r.out, key)
                  /\ pc' = "readBody"
  /\ UNCHANGED <<pkg, store, path, acceptEncoding, key, bodyRead, changed>>

\* serveFile: the read of the Body, and the response when it succeeds
ReadBody ==
  /\ pc = "readBody"
  /\ \E ok \in BOOLEAN :
       IF ok
       THEN /\ bodyRead' = "ok"
            /\ w' = serveFileEnd(pkg, w, got, key, acceptEncoding)
       ELSE /\ bodyRead' = "err"
            /\ w' = Error(w, "unexpected EOF", 500)
  /\ pc' = "done"
  /\ UNCHANGED <<pkg, store, path, acceptEncoding, key, got, calls, changed>>

\* Another client of the bucket writes an object while a request is in flight
PutObject(k, o) ==
  /\ InFlight
  /\ store[k] # o
  /\ store' = [store EXCEPT ![k] = o]
  /\ changed' = TRUE
  /\ UNCHANGED <<pkg, path, acceptEncoding, pc, key, got, w, calls, bodyRead>>

\* Another client of the bucket deletes an object while a request is in flight
DeleteObject(k) ==
  /\ InFlight
  /\ store[k] # NoObject
  /\ store' = [store EXCEPT ![k] = NoObject]
  /\ changed' = TRUE
  /\ UNCHANGED <<pkg, path, acceptEncoding, pc, key, got, w, calls, bodyRead>>

Next ==
  \/ \E p \in Paths, ae \in AcceptEncodings : ServeHTTP(p, ae)
  \/ HeadPath
  \/ HeadIndex
  \/ GetObject
  \/ ReadBody
  \/ \E k \in StoreKeys, o \in Objects : PutObject(k, o)
  \/ \E k \in StoreKeys : DeleteObject(k)

Spec == Init /\ [][Next]_vars

TypeOK ==
  /\ pkg \in Pkgs
  /\ pc \in {"idle", "headObject", "headIndex", "getObject", "readBody", "done"}
  /\ w.status \in {0, 200, 302, 404, 500}

----------------------------------------------------------------------------
\* Properties.

\* serveFile answered with the object
Served == pc = "done" /\ bodyRead = "ok"

\* every answer of the store was the truth about the bucket
NoStoreError ==
  /\ bodyRead # "err"
  /\ \A i \in 1..Len(calls) :
       \/ calls[i].err = Nil
       \/ calls[i].op = "HeadObject" /\ calls[i].err = AwsErr("NotFound")
       \/ calls[i].op = "GetObject" /\ calls[i].err = AwsErr("NoSuchKey")

HeadCalls == {i \in 1..Len(calls) : calls[i].op = "HeadObject"}

GetCalls == {i \in 1..Len(calls) : calls[i].op = "GetObject"}

C2_DirectoryFetch ==
  (HasSuffix(path, Slash) /\ pc # "idle") =>
    /\ HeadCalls = {}
    /\ pc \in {"getObject", "readBody", "done"}
    /\ pc = "getObject" => calls = << >> /\ w.status = 0
    /\ pc # "getObject" =>
         /\ Len(calls) = 1
         /\ calls[1].op = "GetObject"
         /\ calls[1].key = path \o IndexHtml
    /\ w.status = 404 => calls[1].err = AwsErr("NoSuchKey")

\* C2 witness: the index document is absent and the fetch produced the 404
C2_Witness ==
  /\ HasSuffix(path, Slash) /\ pc = "done"
  /\ ~Exists(store, path \o IndexHtml)
  /\ Len(calls) = 1 /\ w.status = 404

\* C3: the ETag of a served response is the digest of the bytes handed to
\* the client, the compressed ones when compression was applied.
C3_ETagOfBody ==
  Served => w.header["Etag"].val.of.of = w.body

\* the content-type with everything from the first ";" removed
StripParams(ct) ==
  CHOOSE s \in {SubSeq(ct, 1, n) : n \in 0..Len(ct)} :
    /\ \A i \in 1..Len(s) : s[i] # ";"
    /\ Len(s) = Len(ct) \/ ct[Len(s) + 1] = ";"

\* t is "gzip" with white space around it
IsGzipToken(t) ==
  \E a \in 1..Len(t), b \in 1..Len(t) :
    /\ SubSeq(t, a, b) = GzipToken
    /\ \A i \in 1..(a - 1) : t[i] \in WhiteSpace
    /\ \A i \in (b + 1)..Len(t) : t[i] \in WhiteSpace

\* some comma-separated token of the header is "gzip"
HasGzipToken(ae) ==
  \E i \in 1..Len(ae), j \in 1..Len(ae) :
    /\ i <= j
    /\ i = 1 \/ ae[i - 1] = ","
    /\ j = Len(ae) \/ ae[j + 1] = ","
    /\ \A n \in i..j : ae[n] # ","
    /\ IsGzipToken(SubSeq(ae, i, j))

\* C4: the body is compressed exactly when the content-type without its
\* parameters is in the allow-list and Accept-Encoding has the token gzip;
\* Content-Encoding: gzip and Vary: accept-encoding are set exactly then,
\* and otherwise the body is the object's bytes.
C4_CompressionRule ==
  Served =>
    LET should == /\ StripParams(w.header["Content-Type"]) \in compressableContentTypes
                  /\ HasGzipToken(acceptEncoding)
    IN IF should
       THEN /\ w.body = Gzip(got.body)
            /\ HeaderGet(w.header, "Content-Encoding") = GzipToken
            /\ HeaderGet(w.header, "Vary") = AcceptEncodingName
       ELSE /\ w.body = got.body
            /\ "Content-Encoding" \notin DOMAIN w.header
            /\ "Vary" \notin DOMAIN w.header

\* C4 witness: a type with a parameter, and gzip as the second token
C4_Witness ==
  /\ Served
  /\ acceptEncoding = AeDeflateGzip
  /\ w.header["Content-Type"] = TextHtmlUtf8
  /\ w.body = Gzip(got.body)

\* C5: Cache-Control is the store's directive when there is one, and
\* "max-age=60" otherwise.
C5_CacheControl ==
  Served =>
    w.header["Cache-Control"] = (IF got.cc # Empty THEN got.cc ELSE MaxAge60)

\* C6: an existence check failing with anything but NotFound ends the
\* request at once with 500 and no further store call; NotFound itself is
\* absence and never a 500.
C6_HeadErrorAborts ==
  \A i \in HeadCalls :
    /\ calls[i].err \notin {Nil, AwsErr("NotFound")} =>
         i = Len(calls) /\ pc = "done" /\ w.status = 500
    /\ (calls[i].err = AwsErr("NotFound") /\ i = Len(calls)) =>
         \/ pc = "headIndex" /\ w.status = 0
         \/ pc = "done" /\ w.status = 404

\* C6 witness: the second check was refused after the first reported absence
C6_Witness ==
  /\ Len(calls) = 2
  /\ calls[1].err = AwsErr("NotFound")
  /\ calls[2].op = "HeadObject" /\ calls[2].err = AwsErr("AccessDenied")
  /\ w.status = 500

SuccessHeaders == {"Content-Type", "Etag", "Content-Encoding", "Vary", "Cache-Control"}

\* C7: nothing of the response is set before the Body has been read in
\* full, and a failed read is answered 500 without any header of the
\* success response.
C7_NothingBeforeBody ==
  /\ pc = "readBody" => w.status = 0 /\ DOMAIN w.header = {}
  /\ bodyRead = "err" =>
       /\ w.status = 500
       /\ DOMAIN w.header \cap SuccessHeaders \subseteq {"Content-Type"}
       /\ w.header["Content-Type"] = TextPlainUtf8

\* C8: the store's content-type, when it reports one, is the Content-Type
\* of the response.
C8_StoreContentType ==
  (Served /\ got.ct # Empty) => w.header["Content-Type"] = got.ct

\* C9: without a store content-type and without a known extension the
\* response has no Content-Type header.
C9_NoContentType ==
  (Served /\ got.ct = Empty /\ TypeByExtension(Ext(key)) = Empty) =>
    "Content-Type" \notin DOMAIN w.header

\* C10: at most three store calls per request, at most two existence checks
\* and then at most one fetch; nothing follows a fetch, the second check
\* follows an absence, and a 302 or a resolver 404 has no fetch.
C10_CallSequence ==
  /\ Len(calls) <= 3
  /\ Cardinality(HeadCalls) <= 2
  /\ Cardinality(GetCalls) <= 1
  /\ \A i \in GetCalls : i = Len(calls)
  /\ \A i \in HeadCalls :
       i > 1 => calls[i - 1].op = "HeadObject" /\ calls[i - 1].err = AwsErr("NotFound")
  /\ w.status = 302 => GetCalls = {}
  /\ (w.status = 404 /\ calls[Len(calls)].op = "HeadObject") => GetCalls = {}

\* C10 witness: two existence checks, then the redirect
C10_Witness ==
  /\ pc = "done"
  /\ Cardinality(HeadCalls) = 2
  /\ w.status = 302

============================================================================
